---- MODULE Spec2Model ----
(***************************************************************************)
(* Model of scripts/tune_hyperparams.py: the hyperparameter search harness *)
(* (grid / random search over a parameter space, one child process per     *)
(* trial, metric scraped from the child's output, SIGINT handling, final   *)
(* report), with ParamSpec.from_range, the building of the search space    *)
(* in main, and main of scripts/json_to_csv.py each as a specification of  *)
(* its own (RangeSpec, ConfigSpec, CsvSpec) over the same variables.       *)
(*                                                                         *)
(* Text is modelled structurally: an output is a sequence of lines, a line *)
(* is a head word and a tail of characters.  Metrics are decimal numbers   *)
(* kept exactly, in thousandths (float("5.0") is 5000).                    *)
(***************************************************************************)
EXTENDS Integers, Sequences, FiniteSets, TLC

VARIABLES
    pc,               \* position of the main thread
    args,             \* the parsed command line (argparse namespace)
    search_space,     \* main's search_space: the ParamSpecs in dict order
    _interrupted,     \* global flag set by signal_handler
    _results,         \* global result log
    _minimize,        \* global, set by main
    all_combinations, \* grid_search local
    total,            \* len(all_combinations) / num_samples
    i,                \* loop index of the search loop
    params,           \* the current trial's assignment
    rc,               \* exit code returned by run_eval_cmd for the last trial
    output,           \* output returned by run_eval_cmd for the last trial
    raised,           \* exception propagating in the main thread
    results,          \* main's local `results`
    report,           \* what report_results has printed
    printed,          \* the "CMD:" lines printed by a dry run
    exit_code,        \* the process's exit status
    trials,           \* history: the assignment of every trial begun
    flagAtCheck,      \* history: _interrupted as read by the last loop check
    nInt,             \* history: number of SIGINTs delivered
    intBeforeReport,  \* history: the first SIGINT came before report_results
    current,          \* ParamSpec.from_range local
    values,           \* ParamSpec.from_range local
    input_files,      \* json_to_csv.py main local
    output_file,      \* json_to_csv.py main local
    all_files,        \* json_to_csv.py main local
    success_count,    \* json_to_csv.py main local
    calls             \* history: the arguments of every call of json_to_csv

vars == <<pc, args, search_space, _interrupted, _results, _minimize,
          all_combinations, total, i, params, rc, output, raised, results,
          report, printed, exit_code, trials, flagAtCheck, nInt,
          intBeforeReport, current, values, input_files, output_file,
          all_files, success_count, calls>>

\* The locals of ParamSpec.from_range and of json_to_csv.py's main.
rangeVars == <<current, values>>
csvVars == <<input_files, output_file, all_files, success_count, calls>>

\* Optional values: None is the empty sequence, a present value v is <<v>>.
None == <<>>

Some(v) == <<v>>

NoExc == "none"

\* No call of from_range and no run of json_to_csv.py is in progress.
RangeIdle == current = 0 /\ values = <<>>
CsvIdle ==
    /\ input_files = <<>>
    /\ output_file = None
    /\ all_files = <<>>
    /\ success_count = 0
    /\ calls = <<>>

(***************************************************************************)
(* Bounds of the model.                                                    *)
(***************************************************************************)
MaxTrials == 2    \* most trials an executing grid run plans; largest --max-tests
MaxSamples == 1   \* most trials an executing random run plans
MaxDryTrials == 6 \* most trials a dry run plans
MaxCombos == 4    \* largest Cartesian product of an executing run's space
MaxLines == 2     \* most lines in a child's output

(***************************************************************************)
(* Generic sequence helpers.                                               *)
(***************************************************************************)
Min(a, b) == IF a <= b THEN a ELSE b

Front(s) == SubSeq(s, 1, Len(s) - 1)

Last(s) == s[Len(s)]

IsPrefix(s, t) == Len(s) <= Len(t) /\ SubSeq(t, 1, Len(s)) = s

RECURSIVE Prod(_)
Prod(sizes) == IF sizes = <<>> THEN 1 ELSE Head(sizes) * Prod(Tail(sizes))

(***************************************************************************)
(* Output text of the evaluated program.                                   *)
(***************************************************************************)
Marker == "No output from app for file:"

Digits == {"0", "1", "2", "3", "4", "5", "6", "7", "8", "9"}

DigitValue(c) ==
    CASE c = "0" -> 0 [] c = "1" -> 1 [] c = "2" -> 2 [] c = "3" -> 3
      [] c = "4" -> 4 [] c = "5" -> 5 [] c = "6" -> 6 [] c = "7" -> 7
      [] c = "8" -> 8 [] c = "9" -> 9

Lines ==
    { [head |-> Marker,   tail |-> <<"a">>],
      [head |-> "Error:", tail |-> <<"2">>],
      [head |-> "Error:", tail |-> <<"5", ".", "0">>],
      [head |-> "Error:", tail |-> <<"n", "/", "a">>] }

StdOuts == UNION { [1..n -> Lines] : n \in 0..MaxLines }

TimeoutOutput == << [head |-> "TIMEOUT", tail |-> <<>>] >>

NoOutput == << [head |-> "<not run>", tail |-> <<>>] >>

\* The metric patterns drawn for --metric-regex: one that captures any
\* word, one whose group is optional, one without a group, and one that
\* is only an optional group and so matches in every text.
RegexWord == "Error: (\\S+)"
RegexOpt == "Error: ([0-9.]+)?"
RegexNoGroup == "Error:"
RegexAnywhere == "([0-9.]+)?"
Regexes == {RegexWord, RegexOpt, RegexNoGroup, RegexAnywhere}

NumChars == Digits \cup {"."}

(***************************************************************************)
(* float(x): TypeError for None; for a text, ValueError unless it consists  *)
(* of digits and dots with at least one digit and at most one dot.         *)
(***************************************************************************)
RECURSIVE CountDots(_)
CountDots(t) ==
    IF t = <<>> THEN 0
    ELSE (IF Head(t) = "." THEN 1 ELSE 0) + CountDots(Tail(t))

RECURSIVE IntPart(_, _)
IntPart(t, acc) ==
    IF t = <<>> \/ Head(t) = "." THEN acc
    ELSE IntPart(Tail(t), 10 * acc + DigitValue(Head(t)))

RECURSIVE AfterDot(_)
AfterDot(t) ==
    IF t = <<>> THEN <<>>
    ELSE IF Head(t) = "." THEN Tail(t) ELSE AfterDot(Tail(t))

FracThousandths(f) ==
    (IF Len(f) >= 1 THEN 100 * DigitValue(f[1]) ELSE 0)
  + (IF Len(f) >= 2 THEN 10 * DigitValue(f[2]) ELSE 0)
  + (IF Len(f) >= 3 THEN DigitValue(f[3]) ELSE 0)

float(x) ==
    IF x = None THEN [exc |-> "TypeError", value |-> 0]
    ELSE LET t == x[1] IN
         IF \/ \E k \in 1..Len(t) : t[k] \notin NumChars
            \/ CountDots(t) > 1
            \/ Len(t) - CountDots(t) = 0
         THEN [exc |-> "ValueError", value |-> 0]
         ELSE [exc |-> NoExc,
               value |-> 1000 * IntPart(t, 0) + FracThousandths(AfterDot(t))]

(***************************************************************************)
(* re.search of a metric pattern in the output: the leftmost match.  The   *)
(* patterns do not span lines, so the leftmost match lies in the first     *)
(* line that has one.  groups lists the pattern's capture groups: Some of  *)
(* the captured text, or None for a group that took no part in the match.  *)
(* RegexAnywhere matches at position 0 of any text, the empty one and      *)
(* "TIMEOUT" included; no output begins with a digit or a dot (a line      *)
(* begins with its head word), so its match is empty and its group takes   *)
(* no part.                                                                *)
(***************************************************************************)
RECURSIVE NumRun(_)
NumRun(t) ==
    IF t = <<>> \/ Head(t) \notin NumChars THEN <<>>
    ELSE <<Head(t)>> \o NumRun(Tail(t))

NoMatch == [matched |-> FALSE, groups |-> <<>>]

LineMatch(regex, line) ==
    IF line.head # "Error:" THEN NoMatch
    ELSE CASE regex = RegexWord ->
                [matched |-> TRUE, groups |-> <<Some(line.tail)>>]
           [] regex = RegexOpt ->
                [matched |-> TRUE,
                 groups |-> <<IF NumRun(line.tail) = <<>> THEN None
                              ELSE Some(NumRun(line.tail))>>]
           [] regex = RegexNoGroup ->
                [matched |-> TRUE, groups |-> <<>>]

re_search(regex, out) ==
    IF regex = RegexAnywhere THEN [matched |-> TRUE, groups |-> <<None>>] ELSE
    LET hits == {k \in 1..Len(out) : LineMatch(regex, out[k]).matched} IN
    IF hits = {} THEN NoMatch
    ELSE LineMatch(regex, out[CHOOSE k \in hits : \A h \in hits : k <= h])

\* re.search(r"No output from app for file:", output)
HasMarker(out) == \E k \in 1..Len(out) : out[k].head = Marker

\* match.group(1): IndexError when the pattern has no group 1.
group1(match) ==
    IF Len(match.groups) < 1 THEN [exc |-> "IndexError", value |-> None]
    ELSE [exc |-> NoExc, value |-> match.groups[1]]

\* float(match.group(1))
FloatOfGroup1(match) ==
    IF group1(match).exc # NoExc THEN [exc |-> group1(match).exc, value |-> 0]
    ELSE float(group1(match).value)

\* except (ValueError, IndexError)
ExtractCatches == {"ValueError", "IndexError"}

\* A variant that searches the pattern before it looks for the marker.
extract_metric_PatternFirst(out, metric_regex) ==
    LET match == re_search(metric_regex, out)
        f == FloatOfGroup1(match)
    IN  IF match.matched /\ f.exc = NoExc
        THEN [metric |-> Some(f.value), raised |-> NoExc]
        ELSE [metric |-> None, raised |-> NoExc]

extract_metric(out, metric_regex) ==
    IF HasMarker(out) THEN [metric |-> None, raised |-> NoExc]
    ELSE LET match == re_search(metric_regex, out)
             f == FloatOfGroup1(match)
         IN  IF match.matched
             THEN IF f.exc = NoExc
                  THEN [metric |-> Some(f.value), raised |-> NoExc]
                  ELSE IF f.exc \in ExtractCatches
                       THEN [metric |-> None, raised |-> NoExc]
                       ELSE [metric |-> None, raised |-> f.exc]
             ELSE [metric |-> None, raised |-> NoExc]

(***************************************************************************)
(* run_eval_cmd: what the child process can give back.  A child that ends  *)
(* in time gives its exit code and its output; one that exceeds the        *)
(* timeout gives (-1, "TIMEOUT").                                          *)
(***************************************************************************)
ExitCodes == {0, 1}

run_eval_cmd ==
    { [rc |-> c, output |-> o] : c \in ExitCodes, o \in StdOuts }
        \cup { [rc |-> -1, output |-> TimeoutOutput] }

\* A variant in which a child that does not exit with 0 yields no metric.
scrape_ZeroExitOnly(r, metric_regex) ==
    IF r.rc # 0 THEN [metric |-> None, raised |-> NoExc]
    ELSE extract_metric(r.output, metric_regex)

\* Lines 254-262 / 307-321: of the pair run_eval_cmd returns, the output
\* goes to extract_metric; rc is only printed (lines 267, 326).
scrape(r, metric_regex) == extract_metric(r.output, metric_regex)

(***************************************************************************)
(* itertools.product over the pools: result = [[]], then for each pool     *)
(* result = [x + [y] for x in result for y in pool].                       *)
(***************************************************************************)
\* A variant with the loops swapped: for y in pool for x in result.
RECURSIVE ExtendPoolOutermost(_, _)
ExtendPoolOutermost(result, pool) ==
    IF pool = <<>> THEN <<>>
    ELSE [k \in 1..Len(result) |-> Append(result[k], Head(pool))]
            \o ExtendPoolOutermost(result, Tail(pool))

RECURSIVE Extend(_, _)
Extend(result, pool) ==
    IF result = <<>> THEN <<>>
    ELSE [k \in 1..Len(pool) |-> Append(Head(result), pool[k])]
            \o Extend(Tail(result), pool)

RECURSIVE ProductFrom(_, _)
ProductFrom(result, pools) ==
    IF pools = <<>> THEN result
    ELSE ProductFrom(Extend(result, Head(pools)), Tail(pools))

product(pools) == ProductFrom(<< <<>> >>, pools)

\* [search_space[name].values for name in param_names]
all_values(space) == [k \in 1..Len(space) |-> space[k].values]

\* A variant of the limit that slices whenever a limit is given.
TruncateAlways(combos, max_tests) ==
    IF max_tests # None
    THEN SubSeq(combos, 1, Min(IF max_tests[1] < 0 THEN 0 ELSE max_tests[1],
                               Len(combos)))
    ELSE combos

\* if max_tests and max_tests > 0: all_combinations[:max_tests]
Truncate(combos, max_tests) ==
    IF max_tests # None /\ max_tests[1] # 0 /\ max_tests[1] > 0
    THEN SubSeq(combos, 1, Min(max_tests[1], Len(combos)))
    ELSE combos

grid_combinations(space, max_tests) ==
    Truncate(product(all_values(space)), max_tests)

\* num_samples = args.max_tests or 100; range(num_samples)
FallbackSamples == 100

num_samples(max_tests) ==
    IF max_tests = None \/ max_tests[1] = 0 THEN FallbackSamples
    ELSE max_tests[1]

RangeLen(n) == IF n < 0 THEN 0 ELSE n

\* The choices of {name: random.choice(values) for name in param_names}.
RECURSIVE random_params(_)
random_params(space) ==
    IF space = <<>> THEN { <<>> }
    ELSE { <<Head(space).values[k]>> \o rest :
             k \in 1..Len(Head(space).values),
             rest \in random_params(Tail(space)) }

(***************************************************************************)
(* build_command, lines 205-211.  A text is a sequence of pieces; a        *)
(* parameter name is given with its underscores as pieces of their own.    *)
(***************************************************************************)
\* --eval-cmd
eval_cmd == "./eval"

NameParts(name) ==
    CASE name = "coalition_distance" -> <<"coalition", "_", "distance">>
      [] name = "cluster_min_points" -> <<"cluster", "_", "min", "_", "points">>
      [] name = "grid_half_size" -> <<"grid", "_", "half", "_", "size">>

\* A variant of str.replace that replaces the first occurrence only.
RECURSIVE replace_FirstOnly(_, _, _)
replace_FirstOnly(t, old, new) ==
    IF t = <<>> THEN <<>>
    ELSE IF Head(t) = old THEN <<new>> \o Tail(t)
    ELSE <<Head(t)>> \o replace_FirstOnly(Tail(t), old, new)

\* str.replace(old, new): every occurrence.
replace(t, old, new) == [k \in 1..Len(t) |-> IF t[k] = old THEN new ELSE t[k]]

\* sep.join(texts)
RECURSIVE join(_, _)
join(sep, texts) ==
    IF texts = <<>> THEN <<>>
    ELSE IF Len(texts) = 1 THEN Head(texts)
    ELSE Head(texts) \o <<sep>> \o join(sep, Tail(texts))

\* list(search_space.keys()), lines 224 / 286.
param_names(space) == [k \in 1..Len(space) |-> space[k].name]

\* The dict params is given as its keys and, position by position, its
\* values; a value is rendered by str().
build_command(base_cmd, names, p) ==
    LET param_args ==
          [k \in 1..Len(names) |->
              <<"--">> \o replace(NameParts(names[k]), "_", "-")
                      \o <<" ", ToString(p[k])>>]
    IN  <<base_cmd, " ">> \o join(" ", param_args)

(***************************************************************************)
(* report_results.                                                         *)
(***************************************************************************)
\* [(p, m) for p, m in results if m is not None]
valid_results(res) == SelectSeq(res, LAMBDA e : e.metric # None)

\* sorted(..., key=lambda x: x[1], reverse=...): a stable sort; with
\* reverse=True elements with equal keys keep their original order too.
KeyBefore(a, b, reverse) ==
    IF reverse THEN a.metric[1] > b.metric[1] ELSE a.metric[1] < b.metric[1]

RECURSIVE InsertSorted(_, _, _)
InsertSorted(s, x, reverse) ==
    IF s = <<>> THEN <<x>>
    ELSE IF KeyBefore(x, Head(s), reverse) THEN <<x>> \o s
    ELSE <<Head(s)>> \o InsertSorted(Tail(s), x, reverse)

RECURSIVE SortAscending(_)
SortAscending(seq) ==
    IF seq = <<>> THEN <<>>
    ELSE InsertSorted(SortAscending(Front(seq)), Last(seq), FALSE)

Reverse(s) == [k \in 1..Len(s) |-> s[Len(s) + 1 - k]]

\* A variant that sorts ascending and reverses the result for reverse=True.
sorted_ReversedAfter(seq, reverse) ==
    IF reverse THEN Reverse(SortAscending(seq)) ELSE SortAscending(seq)

RECURSIVE sorted(_, _)
sorted(seq, reverse) ==
    IF seq = <<>> THEN <<>>
    ELSE InsertSorted(sorted(Front(seq), reverse), Last(seq), reverse)

\* Lines 350-351: " ".join(f"--{k.replace('_', '-')} {v}" for k, v in
\* best_params.items()).
best_args(names, p) ==
    join(" ", [k \in 1..Len(names) |->
                 <<"--">> \o replace(NameParts(names[k]), "_", "-")
                         \o <<" ", ToString(p[k])>>])

\* Line 354: the text printed after "Full Command: ".
full_command(names, p) ==
    <<"./build/tests/integration_tests --gtest_filter=Triangulation.GlobalSummary", " ">>
        \o best_args(names, p)

\* sum(metrics), min(metrics), max(metrics)
RECURSIVE sum(_)
sum(metrics) == IF metrics = <<>> THEN 0 ELSE Head(metrics) + sum(Tail(metrics))

min(metrics) ==
    CHOOSE m \in {metrics[k] : k \in 1..Len(metrics)} :
        \A k \in 1..Len(metrics) : m <= metrics[k]

max(metrics) ==
    CHOOSE m \in {metrics[k] : k \in 1..Len(metrics)} :
        \A k \in 1..Len(metrics) : m >= metrics[k]

\* sorted(metrics)
RECURSIVE InsertNumber(_, _)
InsertNumber(s, x) ==
    IF s = <<>> THEN <<x>>
    ELSE IF x < Head(s) THEN <<x>> \o s
    ELSE <<Head(s)>> \o InsertNumber(Tail(s), x)

RECURSIVE sorted_metrics(_)
sorted_metrics(metrics) ==
    IF metrics = <<>> THEN <<>>
    ELSE InsertNumber(sorted_metrics(Front(metrics)), Last(metrics))

\* Lines 364-369: the statistics printed; the mean is kept as the fraction
\* sum / len.
statistics(valid) ==
    LET metrics == [k \in 1..Len(valid) |-> valid[k].metric[1]] IN
    [count |-> Len(valid),
     min |-> min(metrics),
     max |-> max(metrics),
     mean |-> [num |-> sum(metrics), den |-> Len(metrics)],
     median |-> sorted_metrics(metrics)[Len(metrics) \div 2 + 1]]

NoReport ==
    [begun |-> FALSE, interrupted |-> FALSE, over |-> <<>>, kind |-> "none",
     sorted_results |-> <<>>, best |-> None, exc |-> NoExc,
     full_command |-> <<>>, statistics |-> None]

\* A variant of the header that never prints the mark.
report_header_Unmarked(res, flag) ==
    [NoReport EXCEPT !.begun = TRUE, !.over = res]

\* Lines 334-338: the header, with the "(Interrupted - partial results)" mark.
report_header(res, flag) ==
    [NoReport EXCEPT !.begun = TRUE, !.interrupted = flag, !.over = res]

\* A variant without the `if not valid_results: return` guard:
\* sorted_results[0] raises IndexError on an empty list.
report_body_NoGuard(rep, res, minimize, names) ==
    LET valid == valid_results(res)
        sr == sorted(valid, ~minimize)
    IN  IF valid = <<>>
        THEN [rep EXCEPT !.kind = "ranked", !.exc = "IndexError"]
        ELSE [rep EXCEPT !.kind = "ranked", !.sorted_results = sr,
                         !.best = Some(sr[1]),
                         !.full_command = full_command(names, sr[1].params),
                         !.statistics = Some(statistics(valid))]

\* Lines 340-369.
report_body(rep, res, minimize, names) ==
    LET valid == valid_results(res)
        sr == sorted(valid, ~minimize)
    IN  IF valid = <<>>
        THEN [rep EXCEPT !.kind = "novalid"]
        ELSE [rep EXCEPT !.kind = "ranked", !.sorted_results = sr,
                         !.best = Some(sr[1]),
                         !.full_command = full_command(names, sr[1].params),
                         !.statistics = Some(statistics(valid))]

(***************************************************************************)
(* Exceptions: `except Exception` in main catches the subclasses of        *)
(* Exception; SystemExit (raised by sys.exit) derives from BaseException   *)
(* only.                                                                   *)
(***************************************************************************)
ExceptionSubclasses == {"TypeError", "ValueError", "IndexError"}

\* A variant with a bare `except:`.
MainCatches_Bare(exc) == TRUE

\* A variant without the handler: nothing is caught.
MainCatches_Nothing(exc) == FALSE

MainCatches(exc) == exc \in ExceptionSubclasses

\* The positions of main that lie inside its try block (lines 494-505).
TryBlock == {"search", "loop", "body", "exec"}

\* A variant of the loop's `if _interrupted: break` that never breaks.
LoopBreaks_Never(flag) == FALSE

LoopBreaks(flag) == flag

\* A variant of the search loops that executes the command in a dry run too.
SkipsExecution_Never(dry_run) == FALSE

\* `if dry_run: print(CMD); continue` (lines 250-252 / 303-305).
SkipsExecution(dry_run) == dry_run

(***************************************************************************)
(* The inputs drawn: command lines and search spaces.                      *)
(***************************************************************************)
SpaceExample ==
    << [name |-> "coalition_distance", values |-> <<1, 2>>],
       [name |-> "cluster_min_points", values |-> <<10, 20, 30>>] >>

SpaceSquare ==
    << [name |-> "coalition_distance", values |-> <<1, 2>>],
       [name |-> "cluster_min_points", values |-> <<3, 4>>] >>

SpaceRepeat ==
    << [name |-> "grid_half_size", values |-> <<250, 250>>] >>

SearchSpaces == {SpaceExample, SpaceSquare, SpaceRepeat, <<>>}

MaxTestsArgs == {None} \cup {Some(n) : n \in -1..MaxTrials}

ArgSets ==
    [search_mode : {"grid", "random"}, max_tests : MaxTestsArgs,
     dry_run : BOOLEAN, maximize : BOOLEAN, metric_regex : Regexes]

\* The number of trials a run plans.
Planned(a, space) ==
    IF a.search_mode = "grid"
    THEN Len(grid_combinations(space, a.max_tests))
    ELSE RangeLen(num_samples(a.max_tests))

WithinBounds(a, space) ==
    IF a.dry_run THEN Planned(a, space) <= MaxDryTrials
    ELSE /\ Len(product(all_values(space))) <= MaxCombos
         /\ Planned(a, space) <= (IF a.search_mode = "grid" THEN MaxTrials
                                  ELSE MaxSamples)

Init ==
    /\ args \in ArgSets
    /\ search_space \in SearchSpaces
    /\ WithinBounds(args, search_space)
    /\ pc = "main"
    /\ _interrupted = FALSE
    /\ _results = <<>>
    /\ _minimize = TRUE
    /\ all_combinations = <<>>
    /\ total = 0
    /\ i = 0
    /\ params = <<>>
    /\ rc = 0
    /\ output = NoOutput
    /\ raised = NoExc
    /\ results = <<>>
    /\ report = NoReport
    /\ printed = <<>>
    /\ exit_code = None
    /\ trials = <<>>
    /\ flagAtCheck = FALSE
    /\ nInt = 0
    /\ intBeforeReport = FALSE
    /\ RangeIdle
    /\ CsvIdle

\* `not search_space` (line 488) in a variant that never holds.
NoParameters_Never(space) == FALSE

\* `not search_space` (line 488).
NoParameters(space) == space = <<>>

(***************************************************************************)
(* main, lines 449-491: _minimize, the search space, and the exit when no  *)
(* parameter is specified.                                                 *)
(***************************************************************************)
Main ==
    /\ pc = "main"
    /\ _minimize' = ~args.maximize
    /\ IF NoParameters(search_space)
       THEN /\ pc' = "exited"
            /\ exit_code' = Some(1)
       ELSE /\ pc' = "search"
            /\ UNCHANGED exit_code
    /\ UNCHANGED <<args, search_space, _interrupted, _results,
                   all_combinations, total, i, params, rc, output, raised,
                   results, report, printed, trials, flagAtCheck, nInt,
                   intBeforeReport>>
    /\ UNCHANGED <<rangeVars, csvVars>>

(***************************************************************************)
(* grid_search lines 223-237 / random_search lines 283-290: the log is     *)
(* reset and the list of trials is laid out.                               *)
(***************************************************************************)
StartSearch ==
    /\ pc = "search"
    /\ _results' = <<>>
    /\ IF args.search_mode = "grid"
       THEN /\ all_combinations' = grid_combinations(search_space, args.max_tests)
            /\ total' = Len(all_combinations')
       ELSE /\ all_combinations' = <<>>
            /\ total' = RangeLen(num_samples(args.max_tests))
    /\ i' = 0
    /\ pc' = "loop"
    /\ UNCHANGED <<args, search_space, _interrupted, _minimize, params, rc,
                   output, raised, results, report, printed, exit_code,
                   trials, flagAtCheck, nInt, intBeforeReport>>
    /\ UNCHANGED <<rangeVars, csvVars>>

(***************************************************************************)
(* The head of the search loop (lines 239-242 / 292-295): the next item is *)
(* taken, then the flag is read; the loop ends at the end of the list or   *)
(* on a set flag, and the search function returns _results to main.  rc    *)
(* and output are locals of the search function: they hold the last        *)
(* trial's values until the loop head is passed again.                     *)
(***************************************************************************)
LoopCheck ==
    /\ pc = "loop"
    /\ IF i < total /\ ~LoopBreaks(_interrupted)
       THEN /\ pc' = "body"
            /\ flagAtCheck' = _interrupted
            /\ UNCHANGED results
       ELSE /\ pc' = "after"
            /\ results' = _results
            /\ UNCHANGED flagAtCheck
    /\ rc' = 0
    /\ output' = NoOutput
    /\ UNCHANGED <<args, search_space, _interrupted, _results, _minimize,
                   all_combinations, total, i, params, raised, report,
                   printed, exit_code, trials, nInt, intBeforeReport>>
    /\ UNCHANGED <<rangeVars, csvVars>>

(***************************************************************************)
(* Lines 244-254 / 297-307: the assignment and its command; a dry run      *)
(* prints the command and continues, otherwise the child is started.       *)
(***************************************************************************)
Body ==
    /\ pc = "body"
    /\ \E p \in (IF args.search_mode = "grid"
                  THEN {all_combinations[i + 1]}
                  ELSE random_params(search_space)) :
          /\ params' = p
          /\ trials' = Append(trials, p)
          /\ IF SkipsExecution(args.dry_run)
             THEN /\ printed' = Append(printed,
                        build_command(eval_cmd, param_names(search_space), p))
                  /\ i' = i + 1
                  /\ pc' = "loop"
             ELSE /\ pc' = "exec"
                  /\ UNCHANGED <<printed, i>>
    /\ UNCHANGED <<args, search_space, _interrupted, _results, _minimize,
                   all_combinations, total, rc, output, raised, results,
                   report, exit_code, flagAtCheck, nInt, intBeforeReport>>
    /\ UNCHANGED <<rangeVars, csvVars>>

\* A list that takes each new entry at its front.
append_AtFront(log, entry) == <<entry>> \o log

\* Lines 259, 269 / 312, 328: _results.append((params, metric)).
append(log, entry) == Append(log, entry)

(***************************************************************************)
(* Lines 254-269 / 307-328: run_eval_cmd returns, the output is checked    *)
(* for the failure marker, then extract_metric is applied and the trial is *)
(* appended.  An exception leaving extract_metric leaves the search        *)
(* function; main's handler (line 506) takes it if it catches its class.   *)
(***************************************************************************)
FinishTrial ==
    /\ pc = "exec"
    /\ \E r \in run_eval_cmd :
          LET em == scrape(r, args.metric_regex) IN
          /\ rc' = r.rc
          /\ output' = r.output
          /\ IF HasMarker(r.output)
             THEN /\ _results' = append(_results, [params |-> params, metric |-> None])
                  /\ i' = i + 1
                  /\ pc' = "loop"
                  /\ UNCHANGED <<raised, exit_code>>
             ELSE IF em.raised = NoExc
             THEN /\ _results' = append(_results, [params |-> params, metric |-> em.metric])
                  /\ i' = i + 1
                  /\ pc' = "loop"
                  /\ UNCHANGED <<raised, exit_code>>
             ELSE /\ raised' = em.raised
                  /\ IF MainCatches(em.raised)
                     THEN pc' = "except" /\ UNCHANGED exit_code
                     ELSE pc' = "exited" /\ exit_code' = Some(1)
                  /\ UNCHANGED <<_results, i>>
    /\ UNCHANGED <<args, search_space, _interrupted, _minimize,
                   all_combinations, total, params, results, report, printed,
                   trials, flagAtCheck, nInt, intBeforeReport>>
    /\ UNCHANGED <<rangeVars, csvVars>>

\* Lines 506-508: results = _results.
HandleException ==
    /\ pc = "except"
    /\ results' = _results
    /\ raised' = NoExc
    /\ rc' = 0
    /\ output' = NoOutput
    /\ pc' = "after"
    /\ UNCHANGED <<args, search_space, _interrupted, _results, _minimize,
                   all_combinations, total, i, params, report, printed,
                   exit_code, trials, flagAtCheck, nInt, intBeforeReport>>
    /\ UNCHANGED <<rangeVars, csvVars>>

\* Line 510 with --dry-run: no report; main returns.
SkipReport ==
    /\ pc = "after"
    /\ args.dry_run
    /\ pc' = "exited"
    /\ exit_code' = Some(0)
    /\ UNCHANGED <<args, search_space, _interrupted, _results, _minimize,
                   all_combinations, total, i, params, rc, output, raised,
                   results, report, printed, trials, flagAtCheck, nInt,
                   intBeforeReport>>
    /\ UNCHANGED <<rangeVars, csvVars>>

\* Lines 510-511, 334-338: report_results begins and prints its header.
ReportHeader ==
    /\ pc = "after"
    /\ ~args.dry_run
    /\ report' = report_header(results, _interrupted)
    /\ pc' = "report"
    /\ UNCHANGED <<args, search_space, _interrupted, _results, _minimize,
                   all_combinations, total, i, params, rc, output, raised,
                   results, printed, exit_code, trials, flagAtCheck, nInt,
                   intBeforeReport>>
    /\ UNCHANGED <<rangeVars, csvVars>>

\* Lines 340-369; an exception leaving report_results ends the process
\* with a traceback and exit status 1, otherwise main returns.
ReportBody ==
    /\ pc = "report"
    /\ report' = report_body(report, results, _minimize,
                          param_names(search_space))
    /\ raised' = report'.exc
    /\ exit_code' = IF report'.exc = NoExc THEN Some(0) ELSE Some(1)
    /\ pc' = "exited"
    /\ UNCHANGED <<args, search_space, _interrupted, _results, _minimize,
                   all_combinations, total, i, params, rc, output, results,
                   printed, trials, flagAtCheck, nInt, intBeforeReport>>
    /\ UNCHANGED <<rangeVars, csvVars>>

(***************************************************************************)
(* signal_handler, lines 47-55.  The first SIGINT sets the flag.  A SIGINT *)
(* that finds the flag set calls sys.exit(1): SystemExit is raised in the  *)
(* main thread where it stands, and ends the process with status 1 unless  *)
(* a handler around that position catches it.                              *)
(***************************************************************************)
FirstInterrupt ==
    /\ pc # "exited"
    /\ ~_interrupted
    /\ _interrupted' = TRUE
    /\ nInt' = nInt + 1
    /\ intBeforeReport' = ~report.begun
    /\ UNCHANGED <<pc, args, search_space, _results, _minimize,
                   all_combinations, total, i, params, rc, output, raised,
                   results, report, printed, exit_code, trials, flagAtCheck>>
    /\ UNCHANGED <<rangeVars, csvVars>>

SecondInterrupt ==
    /\ pc # "exited"
    /\ _interrupted
    /\ nInt' = nInt + 1
    /\ raised' = "SystemExit"
    /\ IF pc \in TryBlock /\ MainCatches("SystemExit")
       THEN pc' = "except" /\ UNCHANGED exit_code
       ELSE pc' = "exited" /\ exit_code' = Some(1)
    /\ rc' = 0
    /\ output' = NoOutput
    /\ UNCHANGED <<args, search_space, _interrupted, _results, _minimize,
                   all_combinations, total, i, params, results, report,
                   printed, trials, flagAtCheck, intBeforeReport>>
    /\ UNCHANGED <<rangeVars, csvVars>>

\* The steps of the main thread.
Program ==
    \/ Main
    \/ StartSearch
    \/ LoopCheck
    \/ Body
    \/ FinishTrial
    \/ HandleException
    \/ SkipReport
    \/ ReportHeader
    \/ ReportBody

Next ==
    \/ Program
    \/ FirstInterrupt
    \/ SecondInterrupt

Spec == Init /\ [][Next]_vars

\* The main thread keeps running until the process exits; SIGINTs need not come.
FairSpec == Spec /\ WF_vars(Program)

(***************************************************************************)
(* Properties.                                                             *)
(***************************************************************************)
\* The grid order stated independently of the enumeration: the k-th tuple
\* of domain positions is k-1 written in mixed radix, the first parameter
\* being the most significant digit.
Sizes(space) == [j \in 1..Len(space) |-> Len(space[j].values)]

LexPos(k, sizes) ==
    [j \in 1..Len(sizes) |->
        (((k - 1) \div Prod(SubSeq(sizes, j + 1, Len(sizes)))) % sizes[j]) + 1]

LexLess(a, b) ==
    \E j \in 1..Len(a) :
        /\ a[j] < b[j]
        /\ \A h \in 1..(j - 1) : a[h] = b[h]

GridOrder(space) ==
    [k \in 1..Prod(Sizes(space)) |->
        [j \in 1..Len(space) |-> space[j].values[LexPos(k, Sizes(space))[j]]]]

\* C1: in a grid search the k-th trial takes, for every parameter, the value
\* at the k-th position tuple of the lexicographic order (first declared
\* parameter slowest, last fastest), so the position tuples of any two
\* trials a < b are in strictly increasing lexicographic order.
C1_GridOrder ==
    args.search_mode = "grid" =>
        LET sizes == Sizes(search_space)
            order == GridOrder(search_space)
        IN  /\ \A k \in 1..Len(trials) : trials[k] = order[k]
            /\ \A a, b \in 1..Len(trials) :
                  a < b => LexLess(LexPos(a, sizes), LexPos(b, sizes))

C1_Witness ==
    /\ args.search_mode = "grid"
    /\ search_space = SpaceExample
    /\ pc = "exited"
    /\ trials = << <<1, 10>>, <<1, 20>>, <<1, 30>>,
                   <<2, 10>>, <<2, 20>>, <<2, 30>> >>

\* The loop of the search function has been left with every planned trial done.
LoopExhausted == pc \in {"after", "report", "exited"} /\ i = total /\ total > 0

GridLimit(space, max_tests) ==
    IF max_tests # None /\ max_tests[1] >= 1
    THEN Min(max_tests[1], Prod(Sizes(space)))
    ELSE Prod(Sizes(space))

Captured == output # NoOutput

\* The metric pattern matches the output and its first group is a number.
PatternGivesNumber(out, regex) ==
    /\ re_search(regex, out).matched
    /\ Len(re_search(regex, out).groups) >= 1
    /\ re_search(regex, out).groups[1] # None
    /\ float(re_search(regex, out).groups[1]).exc = NoExc

\* C3: when the captured output contains the failure marker, extract_metric
\* gives no metric and the search loop (grid or random) records the trial
\* with an absent metric, whether or not the pattern matches.
C3_MarkerWins ==
    (Captured /\ HasMarker(output)) =>
        /\ extract_metric(output, args.metric_regex)
              = [metric |-> None, raised |-> NoExc]
        /\ pc = "loop"
        /\ raised = NoExc
        /\ Len(_results) = i
        /\ Last(_results) = [params |-> params, metric |-> None]

C3_Witness ==
    /\ args.search_mode = "random"
    /\ Captured
    /\ HasMarker(output)
    /\ PatternGivesNumber(output, args.metric_regex)
    /\ Last(_results).metric = None

\* C4 as claimed: for an output without the marker extract_metric raises
\* nothing, and returns a metric exactly when the pattern matches and the
\* first group of the first match parses as a number.
C4_ExtractNeverRaises ==
    (Captured /\ ~HasMarker(output)) =>
        LET em == extract_metric(output, args.metric_regex) IN
        /\ em.raised = NoExc
        /\ raised = NoExc
        /\ em.metric # None <=> PatternGivesNumber(output, args.metric_regex)

\* C5: the flag, once set, stays set; a loop head reached with the flag set
\* starts no trial; and a trial (or a dry run's command) only begins behind
\* a loop head that read the flag as clear.
C5_NoTrialAfterFlag ==
    [][ /\ _interrupted => _interrupted'
        /\ (pc = "loop" /\ _interrupted) => pc' \in {"loop", "after", "exited"}
        /\ pc # "body" => (trials' = trials /\ printed' = printed)
        /\ pc' \in {"body", "exec"} => ~flagAtCheck' ]_vars

C5_Witness ==
    /\ pc = "after"
    /\ _interrupted
    /\ nInt = 1
    /\ i >= 1
    /\ i < total
    /\ Len(trials) = i

\* The first SIGINT came during the run of a search, before the report.
InterruptedOnce == nInt = 1 /\ intBeforeReport /\ search_space # <<>>

\* report_results has reported over the log as it stands, marked interrupted.
PartialReportDone ==
    /\ report.kind # "none"
    /\ report.interrupted
    /\ report.over = _results

\* C6 as claimed: a run that got exactly one SIGINT, before the report, ends
\* with a report over the trials recorded, marked as interrupted.
C6_AlwaysReportsAfterInterrupt ==
    (pc = "exited" /\ InterruptedOnce) => PartialReportDone

\* C6 amended: unless --dry-run is given, after exactly one SIGINT received
\* before the report (and no second one) the run eventually reaches
\* report_results, which reports over exactly the trials recorded so far
\* and marks the report as interrupted.
C6_ReportsAfterInterruptUnlessDryRun ==
    (InterruptedOnce /\ ~args.dry_run) ~> (nInt >= 2 \/ PartialReportDone)

C6_Witness ==
    /\ pc = "exited"
    /\ InterruptedOnce
    /\ PartialReportDone
    /\ Len(report.over) >= 1
    /\ i < total

\* C7: a SIGINT that finds the flag set before report_results has begun
\* ends the process at once with exit status 1 and without any report; it
\* is not taken by the handler around the search in main.
C7_ForcedExit ==
    [][ (_interrupted /\ nInt' = nInt + 1 /\ ~report.begun) =>
            /\ pc' = "exited"
            /\ exit_code' = Some(1)
            /\ report' = NoReport ]_vars

C7_Witness ==
    /\ pc = "exited"
    /\ nInt = 2
    /\ exit_code = Some(1)
    /\ report = NoReport
    /\ Len(_results) >= 1
    /\ i < total

\* The ranking stated independently of the sort: the trials with the best
\* metric in execution order, then the trials with the next metric, ...
BestMetric(valid, minimize) ==
    CHOOSE m \in {valid[k].metric[1] : k \in 1..Len(valid)} :
        \A k \in 1..Len(valid) :
            IF minimize THEN m <= valid[k].metric[1]
            ELSE m >= valid[k].metric[1]

RECURSIVE StableRank(_, _)
StableRank(valid, minimize) ==
    IF valid = <<>> THEN <<>>
    ELSE LET m == BestMetric(valid, minimize) IN
         SelectSeq(valid, LAMBDA e : e.metric[1] = m)
            \o StableRank(SelectSeq(valid, LAMBDA e : e.metric[1] # m), minimize)

\* C8: the ranking report_results computes lists the trials that have a
\* metric by ascending metric when minimizing and by descending metric when
\* maximizing, trials of equal metric in execution order, and the best
\* trial is the first of this ranking.
C8_Ranking ==
    report.kind = "ranked" =>
        /\ report.sorted_results
              = StableRank(valid_results(report.over), _minimize)
        /\ report.best = Some(report.sorted_results[1])

C8_Witness ==
    /\ report.kind = "ranked"
    /\ ~_minimize
    /\ Len(report.sorted_results) = 2
    /\ report.sorted_results[1].metric = report.sorted_results[2].metric
    /\ report.sorted_results[1].params # report.sorted_results[2].params
    /\ report.over = report.sorted_results

\* C9: when no trial of the log has a metric, report_results prints the
\* no-valid-results message, computes no ranking and no best trial, raises
\* nothing, and the process exits with status 0.
C9_NoValidResults ==
    (report.kind # "none" /\ valid_results(report.over) = <<>>) =>
        /\ report.kind = "novalid"
        /\ report.sorted_results = <<>>
        /\ report.best = None
        /\ report.exc = NoExc
        /\ raised = NoExc
        /\ pc = "exited"
        /\ exit_code = Some(0)

C9_Witness ==
    /\ report.kind = "novalid"
    /\ Len(report.over) = 2
    /\ exit_code = Some(0)

\* C10 as claimed: whatever a trial's outcome (timeout, marker, no match or
\* an unparseable capture), the step that ends the trial appends one entry,
\* leaves the earlier entries as they were and returns to the loop head.
C10_TrialFailureIsolated ==
    [][ (pc = "exec" /\ nInt' = nInt) =>
            /\ pc' = "loop"
            /\ i' = i + 1
            /\ Len(_results') = Len(_results) + 1
            /\ IsPrefix(_results, _results') ]_vars

\* The members of a parameter's declared domain.
Domain(spec) == {spec.values[k] : k \in 1..Len(spec.values)}

\* An assignment gives each parameter of the space one value of its domain.
WithinDomains(p, space) ==
    /\ Len(p) = Len(space)
    /\ \A j \in 1..Len(space) : p[j] \in Domain(space[j])

\* A random search that ran to its end undisturbed by any SIGINT.
RandomRunEnded ==
    /\ args.search_mode = "random"
    /\ ~args.dry_run
    /\ search_space # <<>>
    /\ nInt = 0
    /\ pc = "exited"

\* C11 as claimed: a random search asked for S >= 1 samples, not interrupted
\* and not a dry run, ends with exactly S trials in the log, each assigning
\* every parameter one value of its declared domain.
C11_RandomRecordsAllSamples ==
    (RandomRunEnded /\ num_samples(args.max_tests) >= 1) =>
        /\ Len(_results) = num_samples(args.max_tests)
        /\ \A k \in 1..Len(_results) :
              WithinDomains(_results[k].params, search_space)

(***************************************************************************)
(* main, lines 452-491, step by step: the search space is loaded from the  *)
(* declarative file (--search-space), then every inline parameter that is  *)
(* given replaces or adds its entry, then an empty space ends the process. *)
(* Here args holds the file's parameters as loaded and the inline texts.   *)
(***************************************************************************)
\* Python scalars; a float is kept in thousandths, a bool as 0 or 1.
PyInt(n) == [t |-> "int", v |-> n]
PyFloat(th) == [t |-> "float", v |-> th]
PyBool(b) == [t |-> "bool", v |-> IF b THEN 1 ELSE 0]

\* float(v) of a scalar (line 77).
ToFloat(x) == IF x.t = "float" THEN x ELSE PyFloat(1000 * x.v)

\* ParamSpec.from_list, lines 70-77.  isinstance(v, int) also holds of a
\* bool, and all() of an empty list is True.
from_list(name, vals) ==
    IF \A k \in 1..Len(vals) : vals[k].t = "bool"
    THEN [name |-> name, values |-> vals, param_type |-> "bool"]
    ELSE IF \A k \in 1..Len(vals) : vals[k].t \in {"int", "bool"}
    THEN [name |-> name, values |-> vals, param_type |-> "int"]
    ELSE [name |-> name,
          values |-> [k \in 1..Len(vals) |-> ToFloat(vals[k])],
          param_type |-> "float"]

\* v.strip() for the blanks of the alphabet.
RECURSIVE StripLeft(_)
StripLeft(t) ==
    IF t # <<>> /\ Head(t) = " " THEN StripLeft(Tail(t)) ELSE t

RECURSIVE StripRight(_)
StripRight(t) ==
    IF t # <<>> /\ Last(t) = " " THEN StripRight(Front(t)) ELSE t

strip(t) == StripRight(StripLeft(t))

TrueWords == { <<"1">>, <<"t", "r", "u", "e">>, <<"y", "e", "s">> }

\* One piece of value.split(','), lines 375-383: skipped when blank, else
\* converted by the parameter's type.
ParseOne(piece, param_type) ==
    LET v == strip(piece)
        f == float(Some(v))
    IN  IF v = <<>> THEN [exc |-> NoExc, values |-> <<>>]
        ELSE IF param_type = "bool"
        THEN [exc |-> NoExc, values |-> <<PyBool(v \in TrueWords)>>]
        ELSE IF f.exc # NoExc THEN [exc |-> f.exc, values |-> <<>>]
        ELSE IF param_type = "int"
        THEN [exc |-> NoExc, values |-> <<PyInt(f.value \div 1000)>>]
        ELSE [exc |-> NoExc, values |-> <<PyFloat(f.value)>>]

\* parse_param_list, lines 371-384; a text is given as its pieces between
\* commas.  The first piece that does not convert raises.
RECURSIVE parse_param_list(_, _)
parse_param_list(value, param_type) ==
    IF value = <<>> THEN [exc |-> NoExc, values |-> <<>>]
    ELSE LET one == ParseOne(Head(value), param_type)
             rest == parse_param_list(Tail(value), param_type)
         IN  IF one.exc # NoExc THEN one
             ELSE IF rest.exc # NoExc THEN rest
             ELSE [exc |-> NoExc, values |-> one.values \o rest.values]

\* Truth of an optional text (line 484): None and "" are false.
Truthy(arg_value) == arg_value # None /\ arg_value[1] # << <<>> >>

\* A variant of the dict assignment that keeps an entry already present.
DictSet_KeepPresent(d, spec) ==
    IF \E k \in 1..Len(d) : d[k].name = spec.name THEN d
    ELSE Append(d, spec)

\* search_space[param_name] = spec (line 486): an existing key keeps its
\* place and takes the new value, a new key goes last.
DictSet(d, spec) ==
    IF \E k \in 1..Len(d) : d[k].name = spec.name
    THEN [k \in 1..Len(d) |-> IF d[k].name = spec.name THEN spec ELSE d[k]]
    ELSE Append(d, spec)

\* The inline parameters modelled, in the order of param_mapping
\* (lines 461, 462 and 479 of its nineteen entries).
param_mapping ==
    << [name |-> "coalition_distance", param_type |-> "float"],
       [name |-> "cluster_min_points", param_type |-> "int"],
       [name |-> "grid_half_size", param_type |-> "int"] >>

\* The domain the file declares for a name.
FileSpec(name) == from_list(name, <<PyInt(100), PyInt(200)>>)

\* The names a file may declare: two that have an inline parameter and one
\* that has none.
FileNames == {"coalition_distance", "grid_half_size", "custom_rate"}

MaxFileParams == 2 \* most parameters in the declarative file

\* What load_search_space_from_yaml returns (lines 186-202): the file's
\* parameters in the file's order, each name once.
FileSpaces ==
    { [k \in 1..Len(names) |-> FileSpec(names[k])] :
        names \in { q \in UNION { [1..n -> FileNames] : n \in 0..MaxFileParams } :
                      \A a, b \in 1..Len(q) : a # b => q[a] # q[b] } }

\* The texts given for an inline parameter, as pieces between commas:
\* "", "7", "1, 2.5", "," and "x".
InlineTexts ==
    { << <<>> >>,
      << <<"7">> >>,
      << <<"1">>, <<" ", "2", ".", "5">> >>,
      << <<>>, <<>> >>,
      << <<"x">> >> }

InlineArgs == [1..Len(param_mapping) -> {None} \cup {Some(t) : t \in InlineTexts}]

ConfigArgs ==
    [search_space : {None} \cup {Some(f) : f \in FileSpaces},
     inline : InlineArgs]

ConfigInit ==
    /\ args \in ConfigArgs
    /\ pc = "config"
    /\ search_space = <<>>
    /\ i = 0
    /\ raised = NoExc
    /\ exit_code = None
    /\ _interrupted = FALSE
    /\ _results = <<>>
    /\ _minimize = TRUE
    /\ all_combinations = <<>>
    /\ total = 0
    /\ params = <<>>
    /\ rc = 0
    /\ output = NoOutput
    /\ results = <<>>
    /\ report = NoReport
    /\ printed = <<>>
    /\ trials = <<>>
    /\ flagAtCheck = FALSE
    /\ nInt = 0
    /\ intBeforeReport = FALSE
    /\ RangeIdle
    /\ CsvIdle

\* The variables the building of the search space leaves alone.
searchVars ==
    <<args, _interrupted, _results, _minimize, all_combinations, total,
      params, rc, output, results, report, printed, trials, flagAtCheck,
      nInt, intBeforeReport>>

\* Lines 453-457.
LoadSearchSpace ==
    /\ pc = "config"
    /\ search_space' = IF args.search_space = None THEN <<>>
                       ELSE args.search_space[1]
    /\ i' = 0
    /\ pc' = "override"
    /\ UNCHANGED <<raised, exit_code, searchVars>>
    /\ UNCHANGED <<rangeVars, csvVars>>

\* Lines 482-486, one entry of param_mapping.  A text that does not parse
\* raises ValueError out of main: traceback, exit status 1.
OverrideParam ==
    /\ pc = "override"
    /\ i < Len(param_mapping)
    /\ LET m == param_mapping[i + 1]
           arg_value == args.inline[i + 1]
           parsed == parse_param_list(arg_value[1], m.param_type)
       IN  IF ~Truthy(arg_value)
           THEN /\ i' = i + 1
                /\ UNCHANGED <<pc, search_space, raised, exit_code>>
           ELSE IF parsed.exc # NoExc
           THEN /\ raised' = parsed.exc
                /\ pc' = "exited"
                /\ exit_code' = Some(1)
                /\ UNCHANGED <<search_space, i>>
           ELSE /\ search_space' =
                      DictSet(search_space, from_list(m.name, parsed.values))
                /\ i' = i + 1
                /\ UNCHANGED <<pc, raised, exit_code>>
    /\ UNCHANGED searchVars
    /\ UNCHANGED <<rangeVars, csvVars>>

\* Lines 488-491.
CheckSearchSpace ==
    /\ pc = "override"
    /\ i = Len(param_mapping)
    /\ IF NoParameters(search_space)
       THEN /\ pc' = "exited"
            /\ exit_code' = Some(1)
       ELSE /\ pc' = "search"
            /\ UNCHANGED exit_code
    /\ UNCHANGED <<search_space, i, raised, searchVars>>
    /\ UNCHANGED <<rangeVars, csvVars>>

ConfigNext ==
    \/ LoadSearchSpace
    \/ OverrideParam
    \/ CheckSearchSpace

ConfigSpec == ConfigInit /\ [][ConfigNext]_vars

\* The positions of a name in a search space.
Entries(space, name) == {k \in 1..Len(space) : space[k].name = name}

\* The names the declarative file defines.
FileDefined ==
    IF args.search_space = None THEN {}
    ELSE {args.search_space[1][k].name : k \in 1..Len(args.search_space[1])}

\* The entries of param_mapping whose inline parameter is given (non-empty).
Overridden == {j \in 1..Len(param_mapping) : Truthy(args.inline[j])}

\* The domain an inline text declares, written out per text and type.
InlineDomain(text, param_type) ==
    CASE text = << <<"7">> >> ->
            IF param_type = "int" THEN <<PyInt(7)>> ELSE <<PyFloat(7000)>>
      [] text = << <<"1">>, <<" ", "2", ".", "5">> >> ->
            IF param_type = "int" THEN <<PyInt(1), PyInt(2)>>
            ELSE <<PyFloat(1000), PyFloat(2500)>>
      [] text = << <<>>, <<>> >> -> <<>>

\* C12: in the search space main has built, a name given inline has one
\* entry, holding the inline domain, whether or not the file defines the
\* name; a name only the file defines has one entry, holding the file's
\* domain; and there are no other entries.
C12_OverrideWins ==
    pc = "search" =>
        /\ \A j \in Overridden :
              \E k \in 1..Len(search_space) :
                 /\ Entries(search_space, param_mapping[j].name) = {k}
                 /\ search_space[k].values =
                       InlineDomain(args.inline[j][1], param_mapping[j].param_type)
        /\ \A name \in FileDefined :
              (\A j \in Overridden : param_mapping[j].name # name) =>
                 \E k \in 1..Len(search_space) :
                    /\ Entries(search_space, name) = {k}
                    /\ search_space[k] = FileSpec(name)
        /\ \A k \in 1..Len(search_space) :
              \/ search_space[k].name \in FileDefined
              \/ \E j \in Overridden : param_mapping[j].name = search_space[k].name

\* A name defined by the file and inline, beside one only the file defines.
C12_Witness ==
    /\ pc = "search"
    /\ FileDefined = {"coalition_distance", "custom_rate"}
    /\ args.inline[1] = Some(<< <<"1">>, <<" ", "2", ".", "5">> >>)
    /\ \E k \in 1..Len(search_space) :
          /\ search_space[k].name = "coalition_distance"
          /\ search_space[k].values = <<PyFloat(1000), PyFloat(2500)>>
          /\ search_space[k].values # FileSpec("coalition_distance").values
    /\ \E k \in 1..Len(search_space) : search_space[k] = FileSpec("custom_rate")

C14_TimeoutIsolated ==
    [][ (pc = "exec" /\ nInt' = nInt /\ rc' = -1) =>
            /\ output' = TimeoutOutput
            /\ _results' = Append(_results, [params |-> params, metric |-> None])
            /\ i' = i + 1
            /\ pc' = "loop" ]_vars

\* What the content of an output makes of a trial, the exit code left out:
\* "raises" when the scrape raises, else the metric recorded.
OutcomeOf(out, regex) ==
    IF HasMarker(out) THEN [kind |-> "recorded", metric |-> None]
    ELSE IF re_search(regex, out).matched
            /\ FloatOfGroup1(re_search(regex, out)).exc \notin ExtractCatches \cup {NoExc}
    THEN [kind |-> "raises", metric |-> None]
    ELSE IF PatternGivesNumber(out, regex)
    THEN [kind |-> "recorded",
          metric |-> Some(float(re_search(regex, out).groups[1]).value)]
    ELSE [kind |-> "recorded", metric |-> None]

\* C15: the step that ends a trial records the metric the output alone
\* decides, or records nothing when the scrape raises: executions that
\* return the same output with different exit codes record the same.
C15_ExitCodeIgnored ==
    [][ (pc = "exec" /\ nInt' = nInt) =>
           LET o == OutcomeOf(output', args.metric_regex) IN
           IF o.kind = "recorded"
           THEN _results' = Append(_results, [params |-> params, metric |-> o.metric])
           ELSE _results' = _results ]_vars

\* A trial has been recorded with a metric although its child failed.
C15_Witness ==
    /\ pc = "loop"
    /\ rc = 1
    /\ _results # <<>>
    /\ Last(_results).metric = Some(5000)
    /\ ~HasMarker(output)

(***************************************************************************)
(* ParamSpec.from_range, lines 80-90, step by step.  Numbers are kept in   *)
(* halves (3 stands for 1.5), so the epsilon of line 84 and round(., 6) of *)
(* line 88 change nothing and int(round(.)) of line 86 rounds a half to    *)
(* the even neighbour.  Here args holds the call's arguments.              *)
(***************************************************************************)
MaxStart == 2 \* largest start, in halves
MaxEnd == 5   \* largest end, in halves
MaxStep == 3  \* largest step, in halves

\* The list is followed up to the length of the longest list a positive
\* step produces; a longer list keeps growing in the program while the
\* model holds on to this many of its elements.
MaxValues == MaxEnd + 1

\* Below this value `current` is followed no further: it stays below every
\* end, so the test of line 84 goes the same way.
MinCurrent == 0 - 2

\* start, end and step in halves.  With `big` the call is given Python
\* integers and start and end are counted from 2^53, the first magnitude at
\* which a double no longer holds every integer.
RangeArgs ==
    { a \in [start : 0..MaxStart, end : 0..MaxEnd, step : (0 - 1)..MaxStep,
             param_type : {"int", "float"}, big : BOOLEAN] :
        a.big => /\ a.start % 2 = 0 /\ a.end % 2 = 0 /\ a.step % 2 = 0
                 /\ a.param_type = "int" }

\* The double nearest to the integer 2^53 + n (0 <= n < 2^53), counted from
\* 2^53: the doubles of that range are the even integers, and a tie goes to
\* the one with the even mantissa.
ToDouble(n) ==
    IF n % 2 = 0 THEN n
    ELSE IF (n - 1) % 4 = 0 THEN n - 1
    ELSE n + 1

\* Line 84: current <= end + 1e-9.  For numbers in halves the sum lies
\* between end and the next half.  From 2^53 on, end is converted to the
\* nearest double, which absorbs 1e-9, and the integer current is compared
\* with it exactly.
WithinRange(cur, a) ==
    IF a.big THEN cur <= 2 * ToDouble(a.end \div 2)
    ELSE cur <= a.end

\* int(round(x)) of x = h/2: the nearest integer, a tie to the even one.
IntRound(h) ==
    IF h % 2 = 0 THEN h \div 2
    ELSE IF ((h - 1) \div 2) % 2 = 0 THEN (h - 1) \div 2
    ELSE (h + 1) \div 2

RangeInit ==
    /\ args \in RangeArgs
    /\ pc = "from_range"
    /\ RangeIdle
    /\ CsvIdle
    /\ search_space = <<>>
    /\ i = 0
    /\ raised = NoExc
    /\ exit_code = None
    /\ _interrupted = FALSE
    /\ _results = <<>>
    /\ _minimize = TRUE
    /\ all_combinations = <<>>
    /\ total = 0
    /\ params = <<>>
    /\ rc = 0
    /\ output = NoOutput
    /\ results = <<>>
    /\ report = NoReport
    /\ printed = <<>>
    /\ trials = <<>>
    /\ flagAtCheck = FALSE
    /\ nInt = 0
    /\ intBeforeReport = FALSE

\* What a call of from_range leaves alone.
rangeFrame ==
    <<args, search_space, _interrupted, _results, _minimize,
      all_combinations, total, i, params, rc, output, raised, results,
      report, printed, exit_code, trials, flagAtCheck, nInt,
      intBeforeReport, csvVars>>

\* Lines 82-83.
RangeEnter ==
    /\ pc = "from_range"
    /\ values' = <<>>
    /\ current' = args.start
    /\ pc' = "while"
    /\ UNCHANGED rangeFrame

\* Line 84: the loop test; line 90 when it fails.
RangeTest ==
    /\ pc = "while"
    /\ pc' = IF WithinRange(current, args) THEN "append" ELSE "return"
    /\ UNCHANGED <<current, values, rangeFrame>>

\* Lines 85-89.
RangeAppend ==
    /\ pc = "append"
    /\ values' = IF Len(values) >= MaxValues THEN values
                 ELSE Append(values, IF args.param_type = "int"
                                     THEN IntRound(current) ELSE current)
    /\ current' = IF current + args.step < MinCurrent THEN MinCurrent
                  ELSE current + args.step
    /\ pc' = "while"
    /\ UNCHANGED rangeFrame

RangeNext ==
    \/ RangeEnter
    \/ RangeTest
    \/ RangeAppend

RangeSpec == RangeInit /\ [][RangeNext]_vars

\* The interpreter keeps executing the call.
FairRangeSpec == RangeSpec /\ WF_vars(RangeNext)

\* C16 as claimed: every call of from_range ends, by returning or by
\* raising, whatever start, end and step are; with step = 0 it raises.
C16_FromRangeTerminates ==
    <>(pc = "raised" \/ (pc = "return" /\ args.step # 0))

\* The number of pieces of a text equal to x.
Count(t, x) == Cardinality({k \in 1..Len(t) : t[k] = x})

\* The words of the names and the values of an assignment, in the order
\* of the parameters.
RECURSIVE FlagWords(_, _)
FlagWords(names, p) ==
    IF names = <<>> THEN <<>>
    ELSE SelectSeq(NameParts(Head(names)), LAMBDA w : w # "_")
            \o <<ToString(Head(p))>> \o FlagWords(Tail(names), Tail(p))

\* A command is the base command, one blank, and one flag per parameter.
WellFormedCommand(c, names, p) ==
    LET f == SubSeq(c, 3, Len(c)) IN
    /\ Len(c) >= 3
    /\ c[1] = eval_cmd
    /\ c[2] = " "
    /\ Count(f, "--") = Len(names)
    /\ Count(f, "_") = 0
    /\ f[1] = "--"
    /\ f[Len(f)] # " "
    /\ \A k \in 1..Len(f) - 1 :
          /\ f[k] = " " => f[k + 1] # " "
          /\ f[k + 1] = "--" => f[k] = " "
          /\ f[k] \in {"--", "-"} => f[k + 1] \notin {"--", "-", " "}
    /\ SelectSeq(f, LAMBDA w : w \notin {"--", "-", " "}) = FlagWords(names, p)
    /\ Count(f, " ") = 2 * Len(names) - 1

\* C17: every command built for a trial is the base command followed by one
\* flag per parameter, in the order of the search space, each "--" and the
\* name with hyphens for its underscores, one blank, and the value, the
\* flags one blank apart.
C17_CommandFlags ==
    \A k \in 1..Len(printed) :
        WellFormedCommand(printed[k], param_names(search_space), trials[k])

C17_Witness ==
    /\ search_space = SpaceExample
    /\ Len(printed) = 6
    /\ printed[6] = <<"./eval", " ", "--", "coalition", "-", "distance", " ", "2",
                      " ", "--", "cluster", "-", "min", "-", "points", " ", "30">>

\* C18: a process that has ended after at most one SIGINT, with a search
\* space that holds a parameter, has exit status 0, whether the search
\* ran to its end, was cut short by the SIGINT or by an exception; exit
\* status 1 comes only from the empty search space, before any trial, or
\* from a second SIGINT.
C18_ExitStatus ==
    pc = "exited" =>
        /\ (nInt <= 1 /\ search_space # <<>>) => exit_code = Some(0)
        /\ exit_code = Some(1) =>
              \/ search_space = <<>> /\ trials = <<>> /\ ~report.begun
              \/ nInt >= 2
        /\ exit_code \in {Some(0), Some(1)}

\* One SIGINT cut the search short; the partial report was made; status 0.
C18_Witness ==
    /\ pc = "exited"
    /\ nInt = 1
    /\ intBeforeReport
    /\ report.begun
    /\ report.interrupted
    /\ Len(report.over) >= 1
    /\ i < total
    /\ exit_code = Some(0)

\* C19: in a dry run the executor is never invoked (no trial is ever in
\* execution and no output or exit code is ever bound), one command is
\* printed per trial begun, the log and main's results stay empty, no
\* report begins; an undisturbed dry run prints a command for every trial
\* it planned.
C19_DryRunExecutesNothing ==
    args.dry_run =>
        /\ pc # "exec"
        /\ rc = 0
        /\ output = NoOutput
        /\ _results = <<>>
        /\ results = <<>>
        /\ ~report.begun
        /\ Len(printed) = Len(trials)
        /\ (pc = "exited" /\ nInt = 0 /\ search_space # <<>>) =>
              /\ Len(printed) = total
              /\ total = Planned(args, search_space)
              /\ exit_code = Some(0)

\* A dry random search has printed its two commands and ended.
C19_Witness ==
    /\ args.dry_run
    /\ args.search_mode = "random"
    /\ pc = "exited"
    /\ nInt = 0
    /\ Len(printed) = 2
    /\ _results = <<>>
    /\ ~report.begun

(***************************************************************************)
(* scripts/json_to_csv.py, main (lines 73-101).  Here args holds argv, the *)
(* command line after the program's name (sys.argv[1:]); a file name is a  *)
(* stem and a suffix.                                                      *)
(***************************************************************************)
MaxArgs == 3 \* most arguments on the command line

GoodJson == [stem |-> "a", suffix |-> ".json"]   \* holds measurements
EmptyJson == [stem |-> "b", suffix |-> ".json"]  \* holds no measurements
CsvName == [stem |-> "out", suffix |-> ".csv"]   \* no such JSON file
StarJson == [stem |-> "*", suffix |-> ".json"]   \* a pattern the shell left

ArgNames == {GoodJson, EmptyJson, CsvName, StarJson}

CsvArgs == [argv : UNION { [1..n -> ArgNames] : n \in 0..MaxArgs }]

\* json_to_csv(json_file, csv_file), lines 19-70: True when the file
\* exists, parses and holds measurements; every failure gives False.
json_to_csv(json_file) == json_file = GoodJson

\* str.endswith('.json')
endswith_json(name) == name.suffix = ".json"

\* Lines 84-87: a pattern is expanded to the files of the directory that
\* match it, any other argument is taken as it is.
Expand(pattern) ==
    IF pattern.stem = "*"
    THEN (IF pattern.suffix = ".json" THEN <<GoodJson, EmptyJson>> ELSE <<>>)
    ELSE <<pattern>>

RECURSIVE ExpandAll(_)
ExpandAll(patterns) ==
    IF patterns = <<>> THEN <<>>
    ELSE Expand(Head(patterns)) \o ExpandAll(Tail(patterns))

CsvInit ==
    /\ args \in CsvArgs
    /\ pc = "csv_main"
    /\ RangeIdle
    /\ CsvIdle
    /\ search_space = <<>>
    /\ i = 0
    /\ raised = NoExc
    /\ exit_code = None
    /\ _interrupted = FALSE
    /\ _results = <<>>
    /\ _minimize = TRUE
    /\ all_combinations = <<>>
    /\ total = 0
    /\ params = <<>>
    /\ rc = 0
    /\ output = NoOutput
    /\ results = <<>>
    /\ report = NoReport
    /\ printed = <<>>
    /\ trials = <<>>
    /\ flagAtCheck = FALSE
    /\ nInt = 0
    /\ intBeforeReport = FALSE

\* What json_to_csv.py leaves alone.
csvFrame ==
    <<args, search_space, _interrupted, _results, _minimize,
      all_combinations, total, params, rc, output, raised, results, report,
      printed, trials, flagAtCheck, nInt, intBeforeReport, rangeVars>>

\* Lines 74-79; len(sys.argv) is Len(args.argv) + 1.
CsvMain ==
    /\ pc = "csv_main"
    /\ LET argv == args.argv
           n == Len(argv) + 1
       IN  IF n < 2
           THEN /\ pc' = "exited"
                /\ exit_code' = Some(1)
                /\ UNCHANGED <<input_files, output_file>>
           ELSE /\ input_files' = IF n > 3 THEN SubSeq(argv, 1, Len(argv) - 1)
                                  ELSE <<argv[1]>>
                /\ output_file' = IF n > 2 /\ ~endswith_json(Last(argv))
                                  THEN Some(Last(argv)) ELSE None
                /\ pc' = "csv_glob"
                /\ UNCHANGED exit_code
    /\ UNCHANGED <<all_files, success_count, calls, i, csvFrame>>

\* Lines 82-91.
CsvGlob ==
    /\ pc = "csv_glob"
    /\ all_files' = ExpandAll(input_files)
    /\ IF all_files' = <<>>
       THEN /\ pc' = "exited"
            /\ exit_code' = Some(1)
       ELSE /\ pc' = "csv_convert"
            /\ UNCHANGED exit_code
    /\ i' = 0
    /\ success_count' = 0
    /\ UNCHANGED <<input_files, output_file, calls, csvFrame>>

\* Line 95 or line 100: one call of json_to_csv; the output file is passed
\* only when there is a single input file.
CsvConvert ==
    /\ pc = "csv_convert"
    /\ i < Len(all_files)
    /\ calls' = Append(calls,
                  [json_file |-> all_files[i + 1],
                   csv_file |-> IF Len(all_files) > 1 THEN None ELSE output_file])
    /\ success_count' = success_count
                          + (IF json_to_csv(all_files[i + 1]) THEN 1 ELSE 0)
    /\ i' = i + 1
    /\ UNCHANGED <<pc, exit_code, input_files, output_file, all_files, csvFrame>>

\* Line 97 or line 101.
CsvExit ==
    /\ pc = "csv_convert"
    /\ i = Len(all_files)
    /\ exit_code' = IF success_count = Len(all_files) THEN Some(0) ELSE Some(1)
    /\ pc' = "exited"
    /\ UNCHANGED <<i, input_files, output_file, all_files, success_count,
                   calls, csvFrame>>

CsvNext ==
    \/ CsvMain
    \/ CsvGlob
    \/ CsvConvert
    \/ CsvExit

CsvSpec == CsvInit /\ [][CsvNext]_vars

\* The .json arguments of the command line, a pattern standing for the
\* files it matches.
JsonNamed == ExpandAll(SelectSeq(args.argv, endswith_json))

\* The files json_to_csv was called with.
Converted == [k \in 1..Len(calls) |-> calls[k].json_file]

\* The command line names one or more .json files and nothing else.
OnlyJsonArgs ==
    /\ Len(args.argv) >= 1
    /\ \A k \in 1..Len(args.argv) : endswith_json(args.argv[k])

\* C20 as claimed: when the process has ended on a command line of .json
\* arguments, whatever their number, every one of them has been passed to
\* json_to_csv exactly once, and the exit status is 0 exactly when each of
\* them converted.
C20_EveryJsonConverted ==
    (pc = "exited" /\ OnlyJsonArgs) =>
        /\ \A f \in {GoodJson, EmptyJson} :
              Count(Converted, f) = Count(JsonNamed, f)
        /\ exit_code = Some(0) <=>
              \A k \in 1..Len(JsonNamed) : json_to_csv(JsonNamed[k])

\* C21 as claimed: the tuples a grid search runs are pairwise distinct.
C21_DistinctTuples ==
    args.search_mode = "grid" =>
        \A a, b \in 1..Len(trials) : a # b => trials[a] # trials[b]


\* C22 as claimed: the first interrupt leaves the running trial alone; that
\* trial's executor call returns and its outcome is appended to the log
\* before the flag is consulted, and the flag is read only at a loop head.
C22_TrialNotPreempted ==
    [][ /\ (pc = "exec" /\ ~_interrupted /\ _interrupted') =>
               /\ pc' = "exec"
               /\ UNCHANGED <<_results, i, trials, params, flagAtCheck>>
        /\ (pc = "exec" /\ _interrupted /\ nInt = 1 /\ nInt' = nInt) =>
               /\ pc' = "loop"
               /\ Len(_results') = Len(_results) + 1
               /\ IsPrefix(_results, _results')
               /\ Last(_results').params = params
               /\ flagAtCheck' = flagAtCheck
        /\ flagAtCheck' # flagAtCheck => pc = "loop" ]_vars


\* C23: trials execute one at a time and the log is append-only in execution
\* order: the log never runs ahead of the trials started, at most one started
\* trial is missing from it (the one in flight), entry k records the k-th
\* trial started, and during the search the log changes only by one append.
C23_SequentialLog ==
    [][ /\ ~args.dry_run =>
               /\ Len(_results) <= Len(trials)
               /\ Len(trials) <= Len(_results) + 1
               /\ pc = "exec" => Len(trials) = Len(_results) + 1
               /\ pc \in {"loop", "body"} => Len(trials) = Len(_results)
               /\ \A k \in 1..Len(_results) : _results[k].params = trials[k]
        /\ trials' # trials =>
               /\ pc = "body"
               /\ trials' = Append(trials, params')
               /\ ~args.dry_run => (pc' = "exec" /\ Len(trials) = Len(_results))
        /\ (_results' # _results /\ pc # "search") =>
               /\ pc = "exec"
               /\ Front(_results') = _results
               /\ Last(_results').params = trials[Len(trials)]
               /\ Len(_results') = Len(trials) ]_vars

\* Two trials were executed and appended, with different assignments.
C23_Witness ==
    /\ pc = "loop"
    /\ Len(_results) = 2
    /\ _results[1].params # _results[2].params
    /\ _results[1].params = trials[1]
    /\ _results[2].params = trials[2]


\* C24 as claimed: the log entry of a trial whose output carried the failure
\* marker differs from the entry the same assignment gets when its output
\* has no marker and no metric (no match, or a timeout), so that the status
\* of a trial can be read from its entry.
C24_InvalidDistinguishable ==
    [][ (pc = "exec" /\ pc' = "loop" /\ HasMarker(output')) =>
            \A r \in run_eval_cmd :
                LET em == scrape(r, args.metric_regex) IN
                (~HasMarker(r.output) /\ em.raised = NoExc /\ em.metric = None)
                    => Last(_results') # [params |-> params, metric |-> em.metric]
      ]_vars


\* C25 as claimed: every parameter of a search space that reaches a search
\* has at least one value.
C25_NonEmptyDomains ==
    pc = "search" =>
        \A k \in 1..Len(search_space) : search_space[k].values # <<>>


(***************************************************************************)
(* ParamSpec.from_list on the value lists a declarative file can hold      *)
(* (lines 186-190): booleans, integers and reals, mixed in any order.      *)
(***************************************************************************)
MaxListLen == 3 \* longest value list given to from_list

Scalars == {PyBool(TRUE), PyBool(FALSE), PyInt(1), PyInt(2), PyFloat(2500)}

ValueLists == UNION { [1..n -> Scalars] : n \in 0..MaxListLen }

ListInit ==
    /\ args \in [vals : ValueLists]
    /\ pc = "from_list"
    /\ search_space = <<>>
    /\ i = 0
    /\ raised = NoExc
    /\ exit_code = None
    /\ _interrupted = FALSE
    /\ _results = <<>>
    /\ _minimize = TRUE
    /\ all_combinations = <<>>
    /\ total = 0
    /\ params = <<>>
    /\ rc = 0
    /\ output = NoOutput
    /\ results = <<>>
    /\ report = NoReport
    /\ printed = <<>>
    /\ trials = <<>>
    /\ flagAtCheck = FALSE
    /\ nInt = 0
    /\ intBeforeReport = FALSE
    /\ RangeIdle
    /\ CsvIdle

\* Lines 70-77, called at line 190.
FromList ==
    /\ pc = "from_list"
    /\ search_space' = <<from_list("x", args.vals)>>
    /\ pc' = "return"
    /\ UNCHANGED <<i, raised, exit_code, searchVars>>
    /\ UNCHANGED <<rangeVars, csvVars>>

ListSpec == ListInit /\ [][FromList]_vars

\* The number a scalar stands for, in thousandths (True is 1, False is 0).
NumberOf(x) == IF x.t = "float" THEN x.v ELSE 1000 * x.v

\* The kind the claim infers for a list.
InferredKind(vals) ==
    IF \A k \in 1..Len(vals) : vals[k].t = "bool" THEN "bool"
    ELSE IF \A k \in 1..Len(vals) : NumberOf(vals[k]) % 1000 = 0 /\ vals[k].t # "float"
    THEN "int"
    ELSE "float"

\* C26 as claimed: from_list keeps the given numbers in their order, infers
\* bool, else int, else float, and every element of the domain it returns
\* is of the inferred kind.
C26_FromListKind ==
    pc = "return" =>
        LET ps == search_space[1] IN
        /\ Len(ps.values) = Len(args.vals)
        /\ \A k \in 1..Len(args.vals) :
              NumberOf(ps.values[k]) = NumberOf(args.vals[k])
        /\ ps.param_type = InferredKind(args.vals)
        /\ \A k \in 1..Len(ps.values) : ps.values[k].t = ps.param_type


\* The integers start, start + step, ... that do not exceed end.
Progression(s, e, d) == [k \in 1..((e - s) \div d + 1) |-> s + (k - 1) * d]

\* C27 as claimed: for integers start <= end and an integer step > 0 of kind
\* int, from_range returns exactly start, start + step, ... up to end, and
\* end is among them exactly when end - start is a multiple of step.
C27_IntRange ==
    (/\ pc = "return"
     /\ args.param_type = "int"
     /\ args.start % 2 = 0 /\ args.end % 2 = 0 /\ args.step % 2 = 0
     /\ args.start <= args.end
     /\ args.step > 0) =>
        LET s == args.start \div 2
            e == args.end \div 2
            d == args.step \div 2
        IN  /\ values = Progression(s, e, d)
            /\ (values # <<>> /\ Last(values) = e) <=> ((e - s) % d = 0)


(***************************************************************************)
(* ParamSpec.from_logspace, lines 92-100.  A positive bound is a power of  *)
(* ten, 10^exp; a value of the result is 10^(num/den), kept as the         *)
(* exponent's fraction.                                                    *)
(***************************************************************************)
MaxExp == 1    \* largest exponent of a bound
MaxPoints == 3 \* largest num_points

LogNumbers ==
    {[sgn |-> 0 - 1, exp |-> 0], [sgn |-> 0, exp |-> 0]}
        \cup {[sgn |-> 1, exp |-> x] : x \in (0 - MaxExp)..MaxExp}

LogArgs ==
    [start : LogNumbers, end : LogNumbers, num_points : (0 - 1)..MaxPoints]

LogInit ==
    /\ args \in LogArgs
    /\ pc = "from_logspace"
    /\ RangeIdle
    /\ CsvIdle
    /\ search_space = <<>>
    /\ i = 0
    /\ raised = NoExc
    /\ exit_code = None
    /\ _interrupted = FALSE
    /\ _results = <<>>
    /\ _minimize = TRUE
    /\ all_combinations = <<>>
    /\ total = 0
    /\ params = <<>>
    /\ rc = 0
    /\ output = NoOutput
    /\ results = <<>>
    /\ report = NoReport
    /\ printed = <<>>
    /\ trials = <<>>
    /\ flagAtCheck = FALSE
    /\ nInt = 0
    /\ intBeforeReport = FALSE

\* What a call of from_logspace leaves alone.
logFrame ==
    <<args, search_space, _interrupted, _results, _minimize,
      all_combinations, total, i, params, rc, output, results, report,
      printed, exit_code, trials, flagAtCheck, nInt, intBeforeReport,
      csvVars>>

\* Lines 96-97: math.log10 raises ValueError for a bound that is not
\* positive.
LogEnter ==
    /\ pc = "from_logspace"
    /\ IF args.start.sgn = 1 /\ args.end.sgn = 1
       THEN pc' = "step" /\ UNCHANGED raised
       ELSE pc' = "raised" /\ raised' = "ValueError"
    /\ UNCHANGED <<current, values, logFrame>>

\* Line 98: step = (log_end - log_start) / (num_points - 1), kept as its
\* numerator.
LogStep ==
    /\ pc = "step"
    /\ IF args.num_points - 1 = 0
       THEN /\ pc' = "raised"
            /\ raised' = "ZeroDivisionError"
            /\ UNCHANGED current
       ELSE /\ pc' = "values"
            /\ current' = args.end.exp - args.start.exp
            /\ UNCHANGED raised
    /\ UNCHANGED <<values, logFrame>>

\* Lines 99-100: one value for each index of range(num_points), which is
\* empty when num_points <= 0.
LogValues ==
    /\ pc = "values"
    /\ values' = [k \in 1..args.num_points |->
                    [num |-> args.start.exp * (args.num_points - 1)
                                + (k - 1) * current,
                     den |-> args.num_points - 1]]
    /\ pc' = "return"
    /\ UNCHANGED <<current, raised, logFrame>>

LogNext ==
    \/ LogEnter
    \/ LogStep
    \/ LogValues

LogSpec == LogInit /\ [][LogNext]_vars

\* C28 as claimed: for positive bounds and num_points >= 2 from_logspace
\* returns num_points values of which the first is start and the last is
\* end; for any other input it does not return a domain.
C28_Logspace ==
    LET valid == /\ args.start.sgn = 1
                 /\ args.end.sgn = 1
                 /\ args.num_points >= 2
    IN  /\ (pc = "return" /\ valid) =>
              /\ Len(values) = args.num_points
              /\ values[1].num = args.start.exp * values[1].den
              /\ Last(values).num = args.end.exp * Last(values).den
        /\ ~valid => pc # "return"


\* The metrics of the trials of a log that have one, in ascending order.
AscendingMetrics(res) ==
    LET asc == SortAscending(valid_results(res)) IN
    [k \in 1..Len(asc) |-> asc[k].metric[1]]

\* C29 as claimed: the statistics are taken over exactly the trials with a
\* metric; the median printed is the middle one of an odd count and the
\* mean of the two middle ones of an even count.
C29_Statistics ==
    (report.kind = "ranked" /\ report.exc = NoExc) =>
        LET asc == AscendingMetrics(report.over)
            n == Len(asc)
            st == report.statistics[1]
        IN  /\ n > 0
            /\ st.count = n
            /\ st.min = asc[1]
            /\ st.max = asc[n]
            /\ st.mean.den = n
            /\ st.mean.num = sum(asc)
            /\ IF n % 2 = 1
               THEN st.median = asc[(n + 1) \div 2]
               ELSE 2 * st.median = asc[n \div 2] + asc[n \div 2 + 1]


\* C30 as claimed: the command printed for the best trial is the command
\* that was executed for it, the run's --eval-cmd followed by that trial's
\* flags as build_command renders them.
C30_BestCommand ==
    (report.kind = "ranked" /\ report.exc = NoExc) =>
        report.full_command =
            build_command(eval_cmd, param_names(search_space),
                          report.best[1].params)
====
